---- MODULE Spec2Model ----
(***************************************************************************)
(* Archetype store, entity directory and system iteration of the           *)
(* EntityComponentSystem library (namespace ecs).                          *)
(*                                                                         *)
(* A component kind is a small integer, a component set (ecs::Type, a      *)
(* std::set<Component>) is a set of kinds, a column (ComponentArray<T>)    *)
(* is a sequence of values.  Source indices are 0-based, sequences are     *)
(* 1-based: row i of the source is position i + 1 of the sequence.         *)
(* A value is a pair <<owner, payload>>: the caller tags what it stores    *)
(* with the entity it stores it for, so that a row can be told apart from  *)
(* the row of another entity.  The code never looks inside a value.        *)
(***************************************************************************)
EXTENDS Integers, Sequences, FiniteSets, TLC

\* Bounds of the model.
NumEntities == 3
NumKinds == 2
NumPayloads == 2
MaxLen == 3
MaxCalls == 5
\* Width of EntityInformation::componentIndex (uint64_t in the source).
IndexBits == 4
\* The layout of a handle, scaled down from 64 bits: the index field is
\* below GenerationShift (entityFlagShifts::Generation, 32 in the source),
\* the generation field below TypeShift (entityFlagShifts::Type, 56), the
\* type tag above it; a handle has HandleBits bits (64).
GenerationShift == 2
TypeShift == 4
HandleBits == 6
\* EntityManager::mComponentIdShift (24 in the source, below the 32 of the
\* generation field).
ComponentIdShift == 1
\* Number of value-types (type_info::hash_code values) the client uses.
NumTypes == 2

Payloads == 0..(NumPayloads - 1)
IndexMod == 2^IndexBits
HandleMod == 2^HandleBits
Handles == 0..(HandleMod - 1)

\* Bitwise or of two naturals.
RECURSIVE BitOr(_, _)
BitOr(a, b) ==
    IF a = 0 THEN b
    ELSE IF b = 0 THEN a
    ELSE (IF a % 2 = 1 \/ b % 2 = 1 THEN 1 ELSE 0) + 2 * BitOr(a \div 2, b \div 2)

\* entityTypeFlag::Entity and entityTypeFlag::Component
EntityFlag == 1 * 2^TypeShift
ComponentFlag == 2 * 2^TypeShift

\* The handle EntityManager::createEntity makes of mNextEntityId = next and
\* mEntityGeneration = generation.
EntityId(next, generation) ==
    BitOr(BitOr(next, generation), EntityFlag) % HandleMod

\* The handle EntityManager::createComponent makes of mNextComponentId = next.
ComponentId(next) ==
    BitOr((next * 2^ComponentIdShift) % HandleMod, ComponentFlag) % HandleMod

\* Entity mEntityGeneration { 1ull << entityFlagShifts::Generation }
FirstGeneration == 2^GenerationShift

\* The handles the archetype store is exercised with: the first NumEntities
\* handles createEntity returns and the first NumKinds handles
\* createComponent returns.
Entities == {EntityId(n, FirstGeneration) : n \in 1..NumEntities}
Kinds == {ComponentId(n) : n \in 1..NumKinds}

\* type_info::hash_code() of the value-types: those of the client's structs,
\* and EntityHash, typeid(Entity).hash_code(), Entity being a typedef of
\* uint64_t.
TypeHashes == 1..NumTypes
EntityHash == NumTypes + 1
AllHashes == TypeHashes \cup {EntityHash}
NoHash == 0

VARIABLES
    mArchetypes,         \* std::map<Type, Archetype>: set of kinds -> (kind -> column)
    mEntityInformation,  \* std::unordered_map<Entity, EntityInformation>
    ub,                  \* TRUE once a call has read or written outside a vector
    last,                \* the last call made on the world, and how it ended
    calls,               \* number of calls made so far
    mEntityToHash,       \* std::unordered_map<Entity, uint64_t>, NoHash for an absent key
    mHashToComponentId,  \* std::unordered_map<uint64_t, Component>, 0 for an absent key
    mNextEntityId,       \* EntityManager::mNextEntityId
    mNextComponentId,    \* EntityManager::mNextComponentId
    mInitSettings,       \* Core::mInitSettings
    mSystems             \* the five vectors of SystemManager, by execution order

storeVars == <<mArchetypes, mEntityInformation>>
registryVars == <<mEntityToHash, mHashToComponentId, mNextEntityId, mNextComponentId>>
vars == <<mArchetypes, mEntityInformation, ub, last, calls, mEntityToHash,
          mHashToComponentId, mNextEntityId, mNextComponentId, mInitSettings, mSystems>>

\* Both maps are total functions with a flag per key: a key is in the map
\* (count(key) = 1) iff its entry has present = TRUE.
Types == SUBSET Kinds

\* struct EntityInformation { Type type; uint64_t componentIndex; }
EntityInformation(type, componentIndex) ==
    [present |-> TRUE, type |-> type, componentIndex |-> componentIndex]

NoEntityInformation == [present |-> FALSE, type |-> {}, componentIndex |-> 0]

\* An Archetype whose columns (mComponents, reached through
\* mIdToComponentIndex) are those of type, all empty.
EmptyColumns == [c \in Kinds |-> <<>>]

NewArchetype == [present |-> TRUE, mComponents |-> EmptyColumns]

NoArchetype == [present |-> FALSE, mComponents |-> EmptyColumns]

NoCall == [op |-> "none", e |-> 0, k |-> 0, v |-> <<0, 0>>, req |-> <<>>,
           dlg |-> "none", res |-> "ok", visits |-> <<>>,
           events |-> <<>>, hashes |-> <<>>, order |-> 0, flag |-> "none",
           hash |-> 0, id |-> 0, ret |-> FALSE, printed |-> <<>>]

----------------------------------------------------------------------------
(* EntityManager *)

NoComponent == 0

\* The EntityManager of the world, as one object.
EM == [mEntityToHash |-> mEntityToHash, mHashToComponentId |-> mHashToComponentId,
       mNextEntityId |-> mNextEntityId, mNextComponentId |-> mNextComponentId]

NewEntityManager ==
    [mEntityToHash |-> [h \in Handles |-> NoHash],
     mHashToComponentId |-> [t \in AllHashes |-> NoComponent],
     mNextEntityId |-> 1, mNextComponentId |-> 1]

\* std::unordered_map::insert: a key that is in the map keeps its value.
insert(map, absent, key, value) ==
    IF map[key] # absent THEN map ELSE [map EXCEPT ![key] = value]

\* EntityManager::destroy
destroy(em, id) == [em EXCEPT !.mEntityToHash[id] = NoHash]

\* EntityManager::isValid(Entity id)
isValid(em, id) == em.mEntityToHash[id] # NoHash

\* EntityManager::isValid(Entity id, uint64_t underlyingType)
isValidType(em, id, underlyingType) ==
    IF ~isValid(em, id) THEN FALSE ELSE underlyingType = em.mEntityToHash[id]

\* EntityManager::createEntity
createEntity(em) ==
    LET id == EntityId(em.mNextEntityId, FirstGeneration)
    IN  [em |-> [em EXCEPT !.mNextEntityId = (@ + 1) % HandleMod,
                           !.mEntityToHash = insert(@, NoHash, id, EntityHash)],
         id |-> id]

\* EntityManager::createComponent<T>, hash being typeid(T).hash_code()
createComponent(em, hash) ==
    LET id == ComponentId(em.mNextComponentId)
    IN  [em |-> [em EXCEPT !.mNextComponentId = (@ + 1) % HandleMod,
                           !.mEntityToHash = insert(@, NoHash, id, hash)],
         id |-> id]

\* EntityManager::makeFoundationComponent: mEntityToHash.at(id) throws for an
\* absent id.
makeFoundationComponent(em, id) ==
    IF ~isValid(em, id) THEN [em |-> em, res |-> "throw"]
    ELSE [em |-> [em EXCEPT !.mHashToComponentId =
                                insert(@, NoComponent, em.mEntityToHash[id], id)],
          res |-> "ok"]

\* A lookup that returns whatever the map holds.
getComponentIdOf_Unchecked(em, hash) ==
    [id |-> em.mHashToComponentId[hash], res |-> "ok"]

\* EntityManager::getComponentIdOf<T>
getComponentIdOf(em, hash) ==
    IF em.mHashToComponentId[hash] = NoComponent
    THEN [id |-> NoComponent, res |-> "throw"]
    ELSE [id |-> em.mHashToComponentId[hash], res |-> "ok"]

\* creationType
CreationTypes == {"Default", "TypeDefault"}

\* Core::create<T>(flag)
create(em, hash, flag) ==
    LET out == createComponent(em, hash)
    IN  IF flag = "TypeDefault"
        THEN [em |-> makeFoundationComponent(out.em, out.id).em, id |-> out.id]
        ELSE out

----------------------------------------------------------------------------
(* ComponentArray<T> *)

\* An erase of the element at itemIndex that shifts the ones behind it down.
SwapErase_Shift(data, itemIndex) ==
    SubSeq(data, 1, itemIndex) \o SubSeq(data, itemIndex + 2, Len(data))

\* std::iter_swap(data.begin() + itemIndex, data.end() - 1); data.erase(data.end() - 1)
SwapErase(data, itemIndex) ==
    LET swapped == [data EXCEPT ![itemIndex + 1] = data[Len(data)],
                                ![Len(data)] = data[itemIndex + 1]]
    IN  SubSeq(swapped, 1, Len(swapped) - 1)

\* ComponentArray::transferItemTo on column id of archetype oldT, the peer
\* being column id of archetype newT.  The peer is the same vector when
\* oldT = newT: the element is appended first, then swapped and erased.
transferItemTo(arch, oldT, newT, id, itemIndex) ==
    LET a1 == [arch EXCEPT ![newT].mComponents[id] =
                            Append(@, arch[oldT].mComponents[id][itemIndex + 1])]
    IN  [a1 EXCEPT ![oldT].mComponents[id] = SwapErase(@, itemIndex)]

\* ComponentArray::moveLastItem
moveLastItem(data, itemIndex) ==
    LET d1 == [data EXCEPT ![itemIndex + 1] = data[Len(data)]]
    IN  SubSeq(d1, 1, Len(d1) - 1)

----------------------------------------------------------------------------
(* Archetype *)

\* Every column named in ids of archetype type has an element at index.
InRange(arch, type, ids, index) ==
    \A id \in ids : index < Len(arch[type].mComponents[id])

RECURSIVE transferColumns(_, _, _, _, _)
transferColumns(arch, oldT, newT, ids, dataIndex) ==
    IF ids = {} THEN arch
    ELSE LET id == CHOOSE x \in ids : TRUE
         IN  transferColumns(transferItemTo(arch, oldT, newT, id, dataIndex),
                             oldT, newT, ids \ {id}, dataIndex)

\* Archetype::transferTo.  The loop runs over an unordered_map, so any column
\* may be the last one, whose return value is the one returned.
transferTo(arch, oldT, newT, dataIndex) ==
    LET a == transferColumns(arch, oldT, newT, oldT, dataIndex)
    IN  IF oldT = {}
        THEN {[arch |-> a, movedIndex |-> 0]}
        ELSE {[arch |-> a, movedIndex |-> Len(a[oldT].mComponents[id])] : id \in oldT}

\* Archetype::transferFrom, called on archetype newT.
transferFrom(arch, newT, oldT, dataIndex) ==
    LET a == transferColumns(arch, oldT, newT, newT, dataIndex)
    IN  IF newT = {}
        THEN {[arch |-> a, movedIndex |-> 0, count |-> 0]}
        ELSE {[arch |-> a, movedIndex |-> Len(a[oldT].mComponents[id]),
               count |-> Len(a[oldT].mComponents[id])] : id \in newT}

\* A remove that discards the archetype the entity leaves.
moveLastComponent_Discards(arch, type, component, index) ==
    [arch EXCEPT ![type] = NoArchetype]

\* Archetype::moveLastComponent
moveLastComponent(arch, type, component, index) ==
    [arch EXCEPT ![type].mComponents[component] = moveLastItem(@, index)]

\* Archetype::pushBack
pushBack(arch, type, id, value) ==
    LET a == [arch EXCEPT ![type].mComponents[id] = Append(@, value)]
    IN  [arch |-> a, index |-> Len(a[type].mComponents[id]) - 1]

----------------------------------------------------------------------------
(* ArchetypeManager *)

\* ArchetypeManager::findArchetype returns nullptr for an absent type.
findArchetype(arch, type) == arch[type].present

\* createArchetype without the look-up: the map entry is made anew.
createArchetype_Replaces(arch, id) ==
    [arch EXCEPT ![{id}] = NewArchetype]

\* ArchetypeManager::createArchetype<T>(id)
createArchetype(arch, id) ==
    IF findArchetype(arch, {id}) THEN arch
    ELSE [arch EXCEPT ![{id}] = NewArchetype]

\* ArchetypeManager::cloneArchetype<T>(id, baseType, baseArchetype): the copy
\* constructor of Archetype makes an empty array per column of the base.
cloneArchetype(arch, id, baseType) ==
    LET newType == baseType \cup {id}
    IN  IF findArchetype(arch, newType) THEN arch
        ELSE [arch EXCEPT ![newType] = NewArchetype]

\* ArchetypeManager::subCloneArchetype with Archetype(const Archetype&, const Type&)
subCloneArchetype(arch, subType, baseType) ==
    IF findArchetype(arch, subType) THEN arch
    ELSE [arch EXCEPT ![subType] = NewArchetype]

\* ArchetypeManager::entityMovedIndex: the first entry of the unordered_map
\* equal to entityInformation gets newIndex; any matching entry may be first.
entityMovedIndex(info, newIndex, entityInformation) ==
    LET matches == {e \in Entities : info[e] = entityInformation}
    IN  IF matches = {} THEN {info}
        ELSE {[info EXCEPT ![e].componentIndex = newIndex] : e \in matches}

Outcome(arch, info, res) == [arch |-> arch, info |-> info, res |-> res]

\* ArchetypeManager::addNew
addNew(arch, info, entity, component, value) ==
    LET a0 == createArchetype(arch, component)
        pb == pushBack(a0, {component}, component, value)
    IN  {Outcome(pb.arch,
                 [info EXCEPT ![entity] = EntityInformation({component}, pb.index)],
                 "ok")}

\* ArchetypeManager::addOld
addOld(arch, info, entity, component, value) ==
    LET type == info[entity].type
        index == info[entity].componentIndex
        newType == type \cup {component}
        a0 == cloneArchetype(arch, component, type)
    IN  IF ~findArchetype(arch, type) \/ ~InRange(a0, type, type, index)
        THEN {Outcome(arch, info, "ub")}
        ELSE UNION {
               {LET pb == pushBack(tt.arch, newType, component, value)
                IN  Outcome(pb.arch,
                            [i1 EXCEPT ![entity] = EntityInformation(newType, pb.index)],
                            "ok")
                  : i1 \in entityMovedIndex(info, index,
                                            EntityInformation(type, tt.movedIndex))}
               : tt \in transferTo(a0, type, newType, index)}

\* ArchetypeManager::add
add(arch, info, entity, component, value) ==
    IF info[entity].present
    THEN addOld(arch, info, entity, component, value)
    ELSE addNew(arch, info, entity, component, value)

\* ArchetypeManager::remove
remove(arch, info, entity, component) ==
    IF ~info[entity].present
    THEN {Outcome(arch, info, "throw")}
    ELSE
    LET type == info[entity].type
        index == info[entity].componentIndex
        newType == type \ {component}
        a0 == subCloneArchetype(arch, newType, type)
        tfs == transferFrom(a0, newType, type, index)
    IN  IF ~findArchetype(arch, type) \/ ~InRange(a0, type, newType, index)
        THEN {Outcome(arch, info, "ub")}
        ELSE IF component \notin type
        THEN {Outcome(tf.arch, info, "throw") : tf \in tfs}
        ELSE IF ~InRange(a0, type, {component}, index)
        THEN {Outcome(arch, info, "ub")}
        ELSE UNION {
               {Outcome(moveLastComponent(tf.arch, type, component, index),
                        [i1 EXCEPT ![entity] =
                            EntityInformation(newType, (tf.count - 1) % IndexMod)],
                        "ok")
                  : i1 \in entityMovedIndex(info, index,
                                            EntityInformation(type, tf.movedIndex))}
               : tf \in tfs}

----------------------------------------------------------------------------
(* Iteration of a system over the archetypes *)

\* includes with std::any_of over subset in place of std::all_of.
includes_AnyOf(set, subset) ==
    \E i \in 1..Len(subset) : \E setId \in set : setId = subset[i]

\* ecs::includes: std::all_of over subset of std::any_of over set.
includes(set, subset) ==
    \A i \in 1..Len(subset) : \E setId \in set : setId = subset[i]

Min(S) == CHOOSE x \in S : \A y \in S : x <= y

\* operator< of std::set<Component>, the key order of mArchetypes.
RECURSIVE TypeLess(_, _)
TypeLess(a, b) ==
    IF b = {} THEN FALSE
    ELSE IF a = {} THEN TRUE
    ELSE IF Min(a) < Min(b) THEN TRUE
    ELSE IF Min(b) < Min(a) THEN FALSE
    ELSE TypeLess(a \ {Min(a)}, b \ {Min(b)})

RECURSIVE InKeyOrder(_)
InKeyOrder(S) ==
    IF S = {} THEN <<>>
    ELSE LET first == CHOOSE x \in S : \A y \in S \ {x} : TypeLess(x, y)
         IN  <<first>> \o InKeyOrder(S \ {first})

\* ArchetypeManager::getArchetypesWithSubset
getArchetypesWithSubset(arch, uType) ==
    InKeyOrder({t \in Types : findArchetype(arch, t) /\ includes(t, uType)})

\* The delegates a system installs with forEach: "empty" is the initial
\* mForEachDelegate, "bump" writes to its first argument.
Delegates == {"empty", "bump"}

invoke(dlg, value) ==
    IF dlg = "bump" THEN <<value[1], (value[2] + 1) % NumPayloads>> ELSE value

\* A loop that hands the delegate copies of the values.
invokeRows_Copies(data, dlg, i) == data

RECURSIVE invokeRows(_, _, _)
invokeRows(data, dlg, i) ==
    IF i > Len(data) THEN data
    ELSE invokeRows([data EXCEPT ![i] = invoke(dlg, data[i])], dlg, i + 1)

RowsOf(type, n) == [i \in 1..n |-> <<type, i - 1>>]

\* A run that hands the delegate's writes to every array of the archetype.
RECURSIVE processArchetypes_AllColumns(_, _, _, _, _)
processArchetypes_AllColumns(arch, types, uType, dlg, visits) ==
    IF types = <<>> THEN [arch |-> arch, res |-> "ok", visits |-> visits]
    ELSE LET type == Head(types)
             n == Len(arch[type].mComponents[uType[1]])
         IN  processArchetypes_AllColumns(
                [arch EXCEPT ![type].mComponents =
                    [c \in Kinds |-> invokeRows(arch[type].mComponents[c], dlg, 1)]],
                Tail(types), uType, dlg, visits \o RowsOf(type, n))

\* Core::processEntities: the loop bound is the length of the first array;
\* data[i] of every array of uType is formed for each i below it.
RECURSIVE processArchetypes(_, _, _, _, _)
processArchetypes(arch, types, uType, dlg, visits) ==
    IF types = <<>> THEN [arch |-> arch, res |-> "ok", visits |-> visits]
    ELSE LET type == Head(types)
             n == Len(arch[type].mComponents[uType[1]])
         IN  IF \E j \in 1..Len(uType) : Len(arch[type].mComponents[uType[j]]) < n
             THEN [arch |-> arch, res |-> "ub", visits |-> visits]
             ELSE processArchetypes(
                     [arch EXCEPT ![type].mComponents[uType[1]] = invokeRows(@, dlg, 1)],
                     Tail(types), uType, dlg, visits \o RowsOf(type, n))

processEntities(arch, uType, dlg) ==
    processArchetypes(arch, getArchetypesWithSubset(arch, uType), uType, dlg, <<>>)

\* The ordered required lists of a system: its value-types are pairwise
\* different, so are the kinds that validate against them.
UTypes ==
    {<<k>> : k \in Kinds} \cup {u \in Kinds \X Kinds : u[1] # u[2]}

----------------------------------------------------------------------------
(* The calls a client makes *)

\* initFlag
InitFlags == {"None", "AutoInitialise"}

\* executionOrderFlags: PreUpdate, Update, PreRender, Render, ImGui
PreUpdate == 0
Update == 1
PreRender == 2
Render == 3
ImGui == 4
ExecutionOrders == {PreUpdate, Update, PreRender, Render, ImGui}

Lengths(arch) == {Len(arch[t].mComponents[c]) : t \in Types, c \in Kinds}

Init ==
    /\ mArchetypes = [t \in Types |-> NoArchetype]
    /\ mEntityInformation = [e \in Entities |-> NoEntityInformation]
    /\ ub = FALSE
    /\ last = NoCall
    /\ calls = 0
    /\ mEntityToHash = NewEntityManager.mEntityToHash
    /\ mHashToComponentId = NewEntityManager.mHashToComponentId
    /\ mNextEntityId = NewEntityManager.mNextEntityId
    /\ mNextComponentId = NewEntityManager.mNextComponentId
    /\ mInitSettings = "None"
    /\ mSystems = [o \in ExecutionOrders |-> <<>>]

Commit(o, call, n) ==
    /\ mArchetypes' = o.arch
    /\ mEntityInformation' = o.info
    /\ ub' = (o.res = "ub")
    /\ last' = [call EXCEPT !.res = o.res]
    /\ calls' = calls + n
    /\ UNCHANGED <<registryVars, mInitSettings, mSystems>>

\* Core::add(eId, cId, value)
Add(e, k, p) ==
    /\ ~ub
    /\ calls < MaxCalls
    /\ \E o \in add(mArchetypes, mEntityInformation, e, k, <<e, p>>) :
          /\ \A n \in Lengths(o.arch) : n <= MaxLen
          /\ Commit(o, [NoCall EXCEPT !.op = "add", !.e = e, !.k = k, !.v = <<e, p>>], 1)

\* Core::remove(entity, component)
Remove(e, k) ==
    /\ ~ub
    /\ calls < MaxCalls
    /\ \E o \in remove(mArchetypes, mEntityInformation, e, k) :
          Commit(o, [NoCall EXCEPT !.op = "remove", !.e = e, !.k = k], 1)

\* add(e, k, v) directly followed by remove(e, k), for an entity without k.
thenRemove(o, e, k) ==
    IF o.res = "ok" THEN remove(o.arch, o.info, e, k) ELSE {o}

AddRemove(e, k, p) ==
    /\ ~ub
    /\ calls + 2 <= MaxCalls
    /\ k \notin mEntityInformation[e].type
    /\ \E o1 \in add(mArchetypes, mEntityInformation, e, k, <<e, p>>) :
          /\ \A n \in Lengths(o1.arch) : n <= MaxLen
          /\ \E o2 \in thenRemove(o1, e, k) :
                Commit(o2, [NoCall EXCEPT !.op = "addremove", !.e = e, !.k = k,
                                          !.v = <<e, p>>], 2)

\* One run of a system with required list uType and delegate dlg.
ProcessEntities(uType, dlg) ==
    /\ ~ub
    /\ calls < MaxCalls
    /\ LET o == processEntities(mArchetypes, uType, dlg)
       IN  /\ mArchetypes' = o.arch
           /\ ub' = (o.res = "ub")
           /\ last' = [NoCall EXCEPT !.op = "process", !.req = uType, !.dlg = dlg,
                                     !.res = o.res, !.visits = o.visits]
           /\ calls' = calls + 1
           /\ UNCHANGED <<mEntityInformation, registryVars, mInitSettings, mSystems>>

Next ==
    \/ \E e \in Entities, k \in Kinds, p \in Payloads : Add(e, k, p)
    \/ \E e \in Entities, k \in Kinds : Remove(e, k)
    \/ \E e \in Entities, k \in Kinds, p \in Payloads : AddRemove(e, k, p)
    \/ \E uType \in UTypes, dlg \in Delegates : ProcessEntities(uType, dlg)

Spec == Init /\ [][Next]_vars

----------------------------------------------------------------------------
(* Systems: Core::createSystem, SystemManager *)

\* A system object as its constructor leaves it: the hash codes of the
\* value-types of BaseSystem<Args...>, the delegate it gives to forEach, the
\* execution order it was scheduled for, and its identity.
System(id, hashes, dlg, order) ==
    [id |-> id, hashes |-> hashes, dlg |-> dlg, order |-> order]

\* struct SystemUTypePair
SystemUTypePair(system, uType) == [system |-> system, uType |-> uType]

\* addSystem putting the system at the front of its vector.
addSystem_Front(systems, uType, iBaseSystem) ==
    IF iBaseSystem.order \in ExecutionOrders
    THEN [systems EXCEPT ![iBaseSystem.order] =
                            <<SystemUTypePair(iBaseSystem, uType)>> \o @]
    ELSE systems

\* SystemManager::addSystem: an execution order outside the enum adds nothing.
addSystem(systems, uType, iBaseSystem) ==
    IF iBaseSystem.order \in ExecutionOrders
    THEN [systems EXCEPT ![iBaseSystem.order] =
                            Append(@, SystemUTypePair(iBaseSystem, uType))]
    ELSE systems

\* Core::verifySystem: "throw" for std::exception, "ok" for a return.
verifySystem(em, uType, underlyingTypeHashes) ==
    IF Len(underlyingTypeHashes) # Len(uType) THEN "throw"
    ELSE IF \E i \in 1..Len(underlyingTypeHashes) :
                ~isValidType(em, uType[i], underlyingTypeHashes[i])
    THEN "throw"
    ELSE "ok"

\* Entities<Args...>::getDefaultComponents: { getComponentIdOf<Args>()... }
getDefaultComponents(em, hashes) ==
    IF \E i \in 1..Len(hashes) : getComponentIdOf(em, hashes[i]).res = "throw"
    THEN [components |-> <<>>, res |-> "throw"]
    ELSE [components |-> [i \in 1..Len(hashes) |-> getComponentIdOf(em, hashes[i]).id],
          res |-> "ok"]

\* The autofill loop of createSystem: components[i] = uType[i] for every i
\* below uType.size().
RECURSIVE switchOut(_, _, _)
switchOut(components, uType, i) ==
    IF i > Len(uType) THEN components
    ELSE switchOut([components EXCEPT ![i] = uType[i]], uType, i + 1)

\* Core::createSystem<System>(uType, args...)
createSystem(em, initSettings, systems, uType, system) ==
    IF initSettings = "AutoInitialise"
    THEN LET dc == getDefaultComponents(em, system.hashes)
             components == switchOut(dc.components, uType, 1)
         IN  IF dc.res = "throw" THEN [systems |-> systems, res |-> "throw"]
             ELSE IF Len(uType) > Len(dc.components)
             THEN [systems |-> systems, res |-> "ub"]
             ELSE IF verifySystem(em, components, system.hashes) = "throw"
             THEN [systems |-> systems, res |-> "throw"]
             ELSE [systems |-> addSystem(systems, components, system), res |-> "ok"]
    ELSE IF verifySystem(em, uType, system.hashes) = "throw"
         THEN [systems |-> systems, res |-> "throw"]
         ELSE [systems |-> addSystem(systems, uType, system), res |-> "ok"]

\* What a run of the systems leaves in the log: the prelude of a system, and
\* each call of its delegate with the values handed to it and the values it
\* left in them.
OnUpdateEvent(system) ==
    [sys |-> system.id, order |-> system.order, what |-> "onUpdate",
     type |-> {}, row |-> 0, req |-> <<>>, read |-> <<>>, wrote |-> <<>>]

invokeArgs(dlg, args) == [args EXCEPT ![1] = invoke(dlg, args[1])]

InvokeEvent(system, uType, arch, visit) ==
    LET read == [n \in 1..Len(uType) |->
                    arch[visit[1]].mComponents[uType[n]][visit[2] + 1]]
    IN  [sys |-> system.id, order |-> system.order, what |-> "invoke",
         type |-> visit[1], row |-> visit[2], req |-> uType,
         read |-> read, wrote |-> invokeArgs(system.dlg, read)]

InvokeEvents(system, uType, arch, visits) ==
    [j \in 1..Len(visits) |-> InvokeEvent(system, uType, arch, visits[j])]

\* A loop that iterates first and calls onUpdate afterwards.
RECURSIVE runSystems_IterateFirst(_, _, _)
runSystems_IterateFirst(arch, list, events) ==
    IF list = <<>> THEN [arch |-> arch, res |-> "ok", events |-> events]
    ELSE LET system == Head(list).system
             uType == Head(list).uType
             o == processEntities(arch, uType, system.dlg)
         IN  IF o.res = "ub"
             THEN [arch |-> arch, res |-> "ub", events |-> events]
             ELSE runSystems_IterateFirst(
                     o.arch, Tail(list),
                     Append(events \o InvokeEvents(system, uType, arch, o.visits),
                            OnUpdateEvent(system)))

\* The loop body shared by SystemManager::update, render and imGui:
\* system->onUpdate(); system->getEntities()->callbackProcessEntities(uType).
RECURSIVE runSystems(_, _, _)
runSystems(arch, list, events) ==
    IF list = <<>> THEN [arch |-> arch, res |-> "ok", events |-> events]
    ELSE LET system == Head(list).system
             uType == Head(list).uType
             o == processEntities(arch, uType, system.dlg)
             ev == Append(events, OnUpdateEvent(system))
         IN  IF o.res = "ub"
             THEN [arch |-> arch, res |-> "ub", events |-> ev]
             ELSE runSystems(o.arch, Tail(list),
                             ev \o InvokeEvents(system, uType, arch, o.visits))

\* update with its two loops in the other order.
update_UpdateFirst(arch, systems) ==
    LET upd == runSystems(arch, systems[Update], <<>>)
    IN  IF upd.res = "ub" THEN upd
        ELSE runSystems(upd.arch, systems[PreUpdate], upd.events)

\* SystemManager::update
update(arch, systems) ==
    LET pre == runSystems(arch, systems[PreUpdate], <<>>)
    IN  IF pre.res = "ub" THEN pre
        ELSE runSystems(pre.arch, systems[Update], pre.events)

\* SystemManager::render
render(arch, systems) ==
    LET pre == runSystems(arch, systems[PreRender], <<>>)
    IN  IF pre.res = "ub" THEN pre
        ELSE runSystems(pre.arch, systems[Render], pre.events)

\* SystemManager::imGui
imGui(arch, systems) == runSystems(arch, systems[ImGui], <<>>)

----------------------------------------------------------------------------
(* The world of testing/Main.cpp, its systems and its ticks *)

MaxSchedCalls == 4
MaxSystems == 2

\* The value-types of testing/Main.cpp
Velocity == 1
Position == 2

CommitRegistry(em) ==
    /\ mEntityToHash' = em.mEntityToHash
    /\ mHashToComponentId' = em.mHashToComponentId
    /\ mNextEntityId' = em.mNextEntityId
    /\ mNextComponentId' = em.mNextComponentId

World(em, arch, info) == [em |-> em, arch |-> arch, info |-> info]

\* Core::add(eId, value): the kind is the default kind of the value's type.
addDefault(w, entity, hash, value) ==
    {World(w.em, o.arch, o.info) :
        o \in add(w.arch, w.info, entity, getComponentIdOf(w.em, hash).id, value)}

\* The body of the loops of main: create an entity, give it a Velocity and
\* a Position.
RECURSIVE MainEntities(_, _)
MainEntities(ws, n) ==
    IF n = 0 THEN ws
    ELSE MainEntities(
            UNION {LET ce == createEntity(w.em)
                   IN  UNION {addDefault(w1, ce.id, Position, <<ce.id, 0>>) :
                                 w1 \in addDefault(World(ce.em, w.arch, w.info),
                                                   ce.id, Velocity, <<ce.id, 0>>)}
                     : w \in ws},
            n - 1)

\* main up to its call of createSystem: init(), two kinds registered as the
\* defaults of their types, and then its loop: no entity yet, or all
\* NumEntities entities (21 in the source).
MainWorlds ==
    LET em == create(create(NewEntityManager, Velocity, "TypeDefault").em,
                     Position, "TypeDefault").em
        w0 == World(em, [t \in Types |-> NoArchetype],
                    [e \in Entities |-> NoEntityInformation])
    IN  {w0} \cup MainEntities({w0}, NumEntities)

SchedInit ==
    /\ \E w \in MainWorlds :
          /\ mArchetypes = w.arch
          /\ mEntityInformation = w.info
          /\ mEntityToHash = w.em.mEntityToHash
          /\ mHashToComponentId = w.em.mHashToComponentId
          /\ mNextEntityId = w.em.mNextEntityId
          /\ mNextComponentId = w.em.mNextComponentId
    /\ ub = FALSE
    /\ last = NoCall
    /\ calls = 0
    /\ mInitSettings = "None"
    /\ mSystems = [o \in ExecutionOrders |-> <<>>]

NumSystems(systems) ==
    Len(systems[PreUpdate]) + Len(systems[Update]) + Len(systems[PreRender])
        + Len(systems[Render]) + Len(systems[ImGui])

\* The value-types a system over the kinds of uType declares.
HashesOf(em, uType) == [i \in 1..Len(uType) |-> em.mEntityToHash[uType[i]]]

\* Core::createSystem<System>(uType) for a system that declares the
\* value-types of the kinds it names.
CreateSystem(uType, dlg, order) ==
    /\ ~ub
    /\ calls < MaxSchedCalls
    /\ NumSystems(mSystems) < MaxSystems
    /\ LET id == NumSystems(mSystems) + 1
           hashes == HashesOf(EM, uType)
           o == createSystem(EM, mInitSettings, mSystems, uType,
                             System(id, hashes, dlg, order))
       IN  /\ mSystems' = o.systems
           /\ ub' = (o.res = "ub")
           /\ last' = [NoCall EXCEPT !.op = "createSystem", !.req = uType,
                                     !.hashes = hashes, !.dlg = dlg, !.order = order,
                                     !.id = id, !.res = o.res]
    /\ calls' = calls + 1
    /\ UNCHANGED <<storeVars, registryVars, mInitSettings>>

\* remove(e, getComponentIdOf<Velocity>()), as main calls it after update().
SchedRemove(e) ==
    /\ ~ub
    /\ calls < MaxSchedCalls
    /\ \E k \in {getComponentIdOf(EM, Velocity).id} :
       \E o \in remove(mArchetypes, mEntityInformation, e, k) :
          /\ mArchetypes' = o.arch
          /\ mEntityInformation' = o.info
          /\ ub' = (o.res = "ub")
          /\ last' = [NoCall EXCEPT !.op = "remove", !.e = e, !.k = k, !.res = o.res]
    /\ calls' = calls + 1
    /\ UNCHANGED <<registryVars, mInitSettings, mSystems>>

CommitTick(op, o) ==
    /\ mArchetypes' = o.arch
    /\ ub' = (o.res = "ub")
    /\ last' = [NoCall EXCEPT !.op = op, !.res = o.res, !.events = o.events]
    /\ calls' = calls + 1
    /\ UNCHANGED <<mEntityInformation, registryVars, mInitSettings, mSystems>>

\* Core::update()
TickUpdate ==
    /\ ~ub
    /\ calls < MaxSchedCalls
    /\ CommitTick("update", update(mArchetypes, mSystems))

\* Core::render()
TickRender ==
    /\ ~ub
    /\ calls < MaxSchedCalls
    /\ CommitTick("render", render(mArchetypes, mSystems))

\* Core::imGui()
TickImGui ==
    /\ ~ub
    /\ calls < MaxSchedCalls
    /\ CommitTick("imGui", imGui(mArchetypes, mSystems))

SchedNext ==
    \/ \E uType \in UTypes, dlg \in Delegates, order \in ExecutionOrders :
          CreateSystem(uType, dlg, order)
    \/ \E e \in Entities : SchedRemove(e)
    \/ TickUpdate
    \/ TickRender
    \/ TickImGui

SchedSpec == SchedInit /\ [][SchedNext]_vars

----------------------------------------------------------------------------
(* The world of main with entities destroyed: EntityManager::destroy is the
   only destroy of the library. *)

\* EntityManager::destroy(id) on the EntityManager of the Core.
SchedDestroy(id) ==
    /\ ~ub
    /\ calls < MaxSchedCalls
    /\ isValid(EM, id)
    /\ CommitRegistry(destroy(EM, id))
    /\ last' = [NoCall EXCEPT !.op = "destroy", !.id = id]
    /\ calls' = calls + 1
    /\ UNCHANGED <<storeVars, ub, mInitSettings, mSystems>>

DestroyNext ==
    \/ \E id \in Entities : SchedDestroy(id)
    \/ \E uType \in UTypes, dlg \in Delegates : CreateSystem(uType, dlg, Update)
    \/ TickUpdate

DestroySpec == SchedInit /\ [][DestroyNext]_vars

----------------------------------------------------------------------------
(* Registration of kinds and systems in a new world *)

MaxRegCalls == 3

\* The handles a client passes where a component handle is expected: those
\* of component kinds and the handle of its first entity.
SomeEntity == EntityId(1, FirstGeneration)
HandleLists ==
    {<<h>> : h \in Kinds \cup {SomeEntity}}
        \cup ((Kinds \cup {SomeEntity}) \X (Kinds \cup {SomeEntity}))

\* The lists of value-types a system declares: pairwise different types,
\* the client's structs or uint64_t alone.
HashLists ==
    {<<t>> : t \in AllHashes} \cup {u \in TypeHashes \X TypeHashes : u[1] # u[2]}

\* The execution order a system has unless it is scheduled, and a value
\* outside the enum: scheduleFor takes any ExecutionOrder (uint32_t).
Orders == {Update, ImGui + 1}

\* Core::Core(flags)
RegInit ==
    /\ mArchetypes = [t \in Types |-> NoArchetype]
    /\ mEntityInformation = [e \in Entities |-> NoEntityInformation]
    /\ ub = FALSE
    /\ last = NoCall
    /\ calls = 0
    /\ mEntityToHash = NewEntityManager.mEntityToHash
    /\ mHashToComponentId = NewEntityManager.mHashToComponentId
    /\ mNextEntityId = NewEntityManager.mNextEntityId
    /\ mNextComponentId = NewEntityManager.mNextComponentId
    /\ mInitSettings \in InitFlags
    /\ mSystems = [o \in ExecutionOrders |-> <<>>]

\* Core::create<T>(flag)
RegCreate(hash, flag) ==
    /\ ~ub
    /\ calls < MaxRegCalls
    /\ mNextComponentId <= NumKinds
    /\ LET o == create(EM, hash, flag)
       IN  /\ CommitRegistry(o.em)
           /\ last' = [NoCall EXCEPT !.op = "create", !.hash = hash, !.flag = flag,
                                     !.id = o.id]
    /\ calls' = calls + 1
    /\ UNCHANGED <<storeVars, ub, mInitSettings, mSystems>>

\* Core::create()
RegCreateEntity ==
    /\ ~ub
    /\ calls < MaxRegCalls
    /\ mNextEntityId = 1
    /\ LET o == createEntity(EM)
       IN  /\ CommitRegistry(o.em)
           /\ last' = [NoCall EXCEPT !.op = "createEntity", !.id = o.id]
    /\ calls' = calls + 1
    /\ UNCHANGED <<storeVars, ub, mInitSettings, mSystems>>

\* Core::createSystem<System>(uType) for a system that declares the
\* value-types hashes.
RegCreateSystem(uType, hashes, order) ==
    /\ ~ub
    /\ calls < MaxRegCalls
    /\ LET id == NumSystems(mSystems) + 1
           o == createSystem(EM, mInitSettings, mSystems, uType,
                             System(id, hashes, "empty", order))
       IN  /\ mSystems' = o.systems
           /\ ub' = (o.res = "ub")
           /\ last' = [NoCall EXCEPT !.op = "createSystem", !.req = uType,
                                     !.hashes = hashes, !.dlg = "empty",
                                     !.order = order, !.id = id, !.res = o.res]
    /\ calls' = calls + 1
    /\ UNCHANGED <<storeVars, registryVars, mInitSettings>>

RegNext ==
    \/ \E hash \in TypeHashes, flag \in CreationTypes : RegCreate(hash, flag)
    \/ RegCreateEntity
    \/ \E uType \in HandleLists, hashes \in HashLists, order \in Orders :
          RegCreateSystem(uType, hashes, order)

RegSpec == RegInit /\ [][RegNext]_vars

----------------------------------------------------------------------------
(* The calls on an EntityManager *)

MaxHandleCalls == 6

\* EntityManager()
HandleInit ==
    /\ mArchetypes = [t \in Types |-> NoArchetype]
    /\ mEntityInformation = [e \in Entities |-> NoEntityInformation]
    /\ ub = FALSE
    /\ last = NoCall
    /\ calls = 0
    /\ mEntityToHash = NewEntityManager.mEntityToHash
    /\ mHashToComponentId = NewEntityManager.mHashToComponentId
    /\ mNextEntityId = NewEntityManager.mNextEntityId
    /\ mNextComponentId = NewEntityManager.mNextComponentId
    /\ mInitSettings = "None"
    /\ mSystems = [o \in ExecutionOrders |-> <<>>]

\* The handles in mEntityToHash.
Live(em) == {h \in Handles : isValid(em, h)}

\* EntityManager::createEntity
HandleCreateEntity ==
    /\ calls < MaxHandleCalls
    /\ LET o == createEntity(EM)
       IN  /\ CommitRegistry(o.em)
           /\ last' = [NoCall EXCEPT !.op = "createEntity", !.id = o.id]
    /\ calls' = calls + 1
    /\ UNCHANGED <<storeVars, ub, mInitSettings, mSystems>>

\* Core::create<T>(flag): EntityManager::createComponent<T>, then
\* makeFoundationComponent for TypeDefault.
HandleCreate(hash, flag) ==
    /\ calls < MaxHandleCalls
    /\ mNextComponentId <= NumKinds
    /\ LET o == create(EM, hash, flag)
       IN  /\ CommitRegistry(o.em)
           /\ last' = [NoCall EXCEPT !.op = "create", !.hash = hash, !.flag = flag,
                                     !.id = o.id]
    /\ calls' = calls + 1
    /\ UNCHANGED <<storeVars, ub, mInitSettings, mSystems>>

\* EntityManager::destroy of a handle the manager has returned.
HandleDestroy(id) ==
    /\ calls < MaxHandleCalls
    /\ isValid(EM, id)
    /\ CommitRegistry(destroy(EM, id))
    /\ last' = [NoCall EXCEPT !.op = "destroy", !.id = id]
    /\ calls' = calls + 1
    /\ UNCHANGED <<storeVars, ub, mInitSettings, mSystems>>

\* EntityManager::makeFoundationComponent
HandleMakeFoundation(id) ==
    /\ calls < MaxHandleCalls
    /\ LET o == makeFoundationComponent(EM, id)
       IN  /\ CommitRegistry(o.em)
           /\ last' = [NoCall EXCEPT !.op = "makeFoundationComponent", !.id = id,
                                     !.res = o.res]
    /\ calls' = calls + 1
    /\ UNCHANGED <<storeVars, ub, mInitSettings, mSystems>>

\* EntityManager::isValid(id, underlyingType): a query, the world is as it was.
HandleIsValid(id, hash) ==
    /\ last' = [NoCall EXCEPT !.op = "isValid", !.id = id, !.hash = hash,
                              !.ret = isValidType(EM, id, hash)]
    /\ UNCHANGED <<storeVars, registryVars, ub, calls, mInitSettings, mSystems>>

\* EntityManager::getComponentIdOf<T>: a query.
HandleGetComponentIdOf(hash) ==
    /\ LET o == getComponentIdOf(EM, hash)
       IN  last' = [NoCall EXCEPT !.op = "getComponentIdOf", !.hash = hash,
                                  !.id = o.id, !.res = o.res]
    /\ UNCHANGED <<storeVars, registryVars, ub, calls, mInitSettings, mSystems>>

\* The handles the client holds: those returned so far, live or not, and
\* the handle the next createEntity will return.
Returned(em) ==
    {EntityId(n, FirstGeneration) : n \in 1..(em.mNextEntityId - 1)}
        \cup {ComponentId(n) : n \in 1..(em.mNextComponentId - 1)}

Held(em) == Returned(em) \cup {EntityId(em.mNextEntityId, FirstGeneration)}

HandleNext ==
    \/ HandleCreateEntity
    \/ \E hash \in TypeHashes, flag \in CreationTypes : HandleCreate(hash, flag)
    \/ \E id \in Returned(EM) : HandleDestroy(id)
    \/ \E id \in Held(EM) : HandleMakeFoundation(id)
    \/ \E id \in Held(EM), hash \in AllHashes : HandleIsValid(id, hash)
    \/ \E hash \in AllHashes : HandleGetComponentIdOf(hash)

HandleSpec == HandleInit /\ [][HandleNext]_vars

----------------------------------------------------------------------------
(* The calls on a Core: handles from its EntityManager, components through
   its ArchetypeManager.  The client may pass any handle value to add and
   remove, returned to it or not; every value it adds under one kind is of
   one type. *)

MaxCoreCalls == 4

\* Core::create(): an entity
CoreCreateEntity ==
    /\ ~ub
    /\ calls < MaxCoreCalls
    /\ mNextEntityId <= NumEntities
    /\ LET o == createEntity(EM)
       IN  /\ CommitRegistry(o.em)
           /\ last' = [NoCall EXCEPT !.op = "createEntity", !.id = o.id]
    /\ calls' = calls + 1
    /\ UNCHANGED <<storeVars, ub, mInitSettings, mSystems>>

\* Core::create<T>(flag): a component kind
CoreCreate(hash, flag) ==
    /\ ~ub
    /\ calls < MaxCoreCalls
    /\ mNextComponentId <= NumKinds
    /\ LET o == create(EM, hash, flag)
       IN  /\ CommitRegistry(o.em)
           /\ last' = [NoCall EXCEPT !.op = "create", !.hash = hash, !.flag = flag,
                                     !.id = o.id]
    /\ calls' = calls + 1
    /\ UNCHANGED <<storeVars, ub, mInitSettings, mSystems>>

\* Core::add(eId, cId, value)
CoreAdd(e, k, p) ==
    /\ ~ub
    /\ calls < MaxCoreCalls
    /\ \E o \in add(mArchetypes, mEntityInformation, e, k, <<e, p>>) :
          /\ \A n \in Lengths(o.arch) : n <= MaxLen
          /\ Commit(o, [NoCall EXCEPT !.op = "add", !.e = e, !.k = k, !.v = <<e, p>>], 1)

\* Core::remove(entity, component)
CoreRemove(e, k) ==
    /\ ~ub
    /\ calls < MaxCoreCalls
    /\ \E o \in remove(mArchetypes, mEntityInformation, e, k) :
          Commit(o, [NoCall EXCEPT !.op = "remove", !.e = e, !.k = k], 1)

CoreNext ==
    \/ CoreCreateEntity
    \/ \E hash \in TypeHashes, flag \in CreationTypes : CoreCreate(hash, flag)
    \/ \E e \in Entities, k \in Kinds, p \in Payloads : CoreAdd(e, k, p)
    \/ \E e \in Entities, k \in Kinds : CoreRemove(e, k)

CoreSpec == HandleInit /\ [][CoreNext]_vars

----------------------------------------------------------------------------
(* A system whose delegate changes the structure: for each row it is handed
   it calls remove(owner of the row, first kind of its required list).  The
   values of the model carry their owner as first element. *)

Visited(arch, info, res, visits) ==
    [arch |-> arch, info |-> info, res |-> res, visits |-> visits]

\* The inner loop of Core::processEntities over one archetype, row i
\* (counted from 0): data.size() of the first array is read again before
\* every iteration, data[i] of every array of uType is formed, and the
\* delegate runs.
RECURSIVE removingRows(_, _, _, _)
removingRows(o, type, uType, i) ==
    LET data == o.arch[type].mComponents[uType[1]]
    IN  IF o.res # "ok" \/ i >= Len(data) THEN {o}
        ELSE IF \E j \in 1..Len(uType) : Len(o.arch[type].mComponents[uType[j]]) <= i
        THEN {Visited(o.arch, o.info, "ub", o.visits)}
        ELSE UNION {removingRows(Visited(r.arch, r.info, r.res,
                                         Append(o.visits, <<type, i>>)),
                                 type, uType, i + 1)
                      : r \in remove(o.arch, o.info, data[i + 1][1], uType[1])}

\* The outer loop: the archetypes are those found before the first row.
RECURSIVE removingArchetypes(_, _, _)
removingArchetypes(os, types, uType) ==
    IF types = <<>> THEN os
    ELSE removingArchetypes(UNION {removingRows(o, Head(types), uType, 0) : o \in os},
                            Tail(types), uType)

processRemoving(arch, info, uType) ==
    removingArchetypes({Visited(arch, info, "ok", <<>>)},
                       getArchetypesWithSubset(arch, uType), uType)

\* One run of such a system.
ProcessRemoving(uType) ==
    /\ ~ub
    /\ calls < MaxCalls
    /\ \E o \in processRemoving(mArchetypes, mEntityInformation, uType) :
          Commit(o, [NoCall EXCEPT !.op = "processRemoving", !.req = uType,
                                   !.dlg = "remove", !.visits = o.visits], 1)

IterNext ==
    \/ \E e \in Entities, k \in Kinds, p \in Payloads : Add(e, k, p)
    \/ \E uType \in UTypes : ProcessRemoving(uType)

IterSpec == Init /\ [][IterNext]_vars

----------------------------------------------------------------------------
(* The masks of a handle and ecs::print.  A 64-bit value is written as its
   eight bytes, the most significant first, as in the literals of the
   source. *)

\* entityFlagShifts
entityFlagShifts == [Id |-> 0, Generation |-> 32, Type |-> 56]

\* entityMask
entityMask ==
    [Id         |-> <<0, 0, 0, 0, 255, 255, 255, 255>>,
     Generation |-> <<0, 0, 255, 255, 0, 0, 0, 0>>,
     Type       |-> <<255, 0, 0, 0, 0, 0, 0, 0>>]

\* Bitwise and of two naturals.
RECURSIVE BitAnd(_, _)
BitAnd(a, b) ==
    IF a = 0 \/ b = 0 THEN 0
    ELSE (IF a % 2 = 1 /\ b % 2 = 1 THEN 1 ELSE 0) + 2 * BitAnd(a \div 2, b \div 2)

\* mask & entity
And64(x, y) ==
    <<BitAnd(x[1], y[1]), BitAnd(x[2], y[2]), BitAnd(x[3], y[3]), BitAnd(x[4], y[4]),
      BitAnd(x[5], y[5]), BitAnd(x[6], y[6]), BitAnd(x[7], y[7]), BitAnd(x[8], y[8])>>

RECURSIVE Zeros(_)
Zeros(n) == IF n = 0 THEN <<>> ELSE <<0>> \o Zeros(n - 1)

\* x >> shift, for a shift of whole bytes.
ShiftRight(x, shift) == Zeros(shift \div 8) \o SubSeq(x, 1, 8 - shift \div 8)

\* ecs::print: the three fields it writes.
print(entity) ==
    [type       |-> And64(entityMask.Type, entity),
     generation |-> ShiftRight(And64(entityMask.Generation, entity),
                               entityFlagShifts.Generation),
     id         |-> And64(entityMask.Id, entity)]

\* The byte values the handles handed to print are made of.
ByteValues == {0, 1, 255}

MaskedHandles ==
    {<<b1, b2, b3, b4, b5, b6, b7, b8>> :
        b1 \in {0, 1, 2}, b2 \in ByteValues, b3 \in ByteValues, b4 \in ByteValues,
        b5 \in {0}, b6 \in {0}, b7 \in {0, 1}, b8 \in ByteValues}

ShowEntity(entity) ==
    /\ last' = [NoCall EXCEPT !.op = "print", !.req = entity,
                              !.printed = print(entity)]
    /\ UNCHANGED <<storeVars, registryVars, ub, calls, mInitSettings, mSystems>>

MaskNext == \E entity \in MaskedHandles : ShowEntity(entity)

MaskSpec == HandleInit /\ [][MaskNext]_vars

----------------------------------------------------------------------------
(* Longer runs of add, remove and a system on one payload value *)

MaxRowCalls == 6

\* Core::add(eId, cId, value)
RowAdd(e, k) ==
    /\ ~ub
    /\ calls < MaxRowCalls
    /\ \E o \in add(mArchetypes, mEntityInformation, e, k, <<e, 0>>) :
          /\ \A n \in Lengths(o.arch) : n <= MaxLen
          /\ Commit(o, [NoCall EXCEPT !.op = "add", !.e = e, !.k = k, !.v = <<e, 0>>], 1)

\* Core::remove(entity, component)
RowRemove(e, k) ==
    /\ ~ub
    /\ calls < MaxRowCalls
    /\ \E o \in remove(mArchetypes, mEntityInformation, e, k) :
          Commit(o, [NoCall EXCEPT !.op = "remove", !.e = e, !.k = k], 1)

\* One run of a system with required list uType and the writing delegate.
RowProcess(uType) ==
    /\ ~ub
    /\ calls < MaxRowCalls
    /\ LET o == processEntities(mArchetypes, uType, "bump")
       IN  /\ mArchetypes' = o.arch
           /\ ub' = (o.res = "ub")
           /\ last' = [NoCall EXCEPT !.op = "process", !.req = uType, !.dlg = "bump",
                                     !.res = o.res, !.visits = o.visits]
           /\ calls' = calls + 1
           /\ UNCHANGED <<mEntityInformation, registryVars, mInitSettings, mSystems>>

RowNext ==
    \/ \E e \in Entities, k \in Kinds : RowAdd(e, k)
    \/ \E e \in Entities, k \in Kinds : RowRemove(e, k)
    \/ \E uType \in UTypes : RowProcess(uType)

RowSpec == Init /\ [][RowNext]_vars

----------------------------------------------------------------------------
(* Vocabulary of the properties *)

Column(arch, type, c) == arch[type].mComponents[c]

\* The directory entries whose component set is type.
EntriesOf(info, type) == {e \in Entities : info[e].present /\ info[e].type = type}

\* entity is where its directory entry says: every column of its set has a
\* value at its row, and the value is one stored for that entity.
OwnRow(arch, info, entity) ==
    \A c \in info[entity].type :
        /\ info[entity].componentIndex < Len(Column(arch, info[entity].type, c))
        /\ Column(arch, info[entity].type, c)[info[entity].componentIndex + 1][1] = entity

AllOwnRows(arch, info) ==
    \A e \in Entities : info[e].present => OwnRow(arch, info, e)

\* All columns of archetype type have length n.
AllColumnsLen(arch, type, n) == \A c \in type : Len(Column(arch, type, c)) = n

\* The lengths of the columns of archetype type: one number, its row count,
\* when they agree.  An archetype without columns stores no row.
RowCounts(arch, type) ==
    IF type = {} THEN {0} ELSE {Len(Column(arch, type, c)) : c \in type}

\* The number of times row (type, i) was handed to the callback.
VisitCount(visits, type, i) ==
    Cardinality({j \in 1..Len(visits) : visits[j] = <<type, i>>})

\* The identities of the systems whose prelude ran, in the order they ran.
IsOnUpdate(ev) == ev.what = "onUpdate"

PreludesOf(events) ==
    LET on == SelectSeq(events, IsOnUpdate)
    IN  [i \in 1..Len(on) |-> on[i].sys]

\* The identities of the systems of one vector of the SystemManager.
IdsOf(list) == [i \in 1..Len(list) |-> list[i].system.id]

\* The execution orders of the systems that left an event.
OrdersOf(events) == {events[i].order : i \in 1..Len(events)}

\* Event ev is a call of a delegate whose argument number n is the value of
\* kind at row of archetype type.
Touches(ev, n, type, row, kind) ==
    /\ ev.what = "invoke"
    /\ ev.type = type
    /\ ev.row = row
    /\ n \in 1..Len(ev.req)
    /\ ev.req[n] = kind

TouchesCell(ev, type, row, kind) ==
    \E n \in 1..Len(ev.req) : Touches(ev, n, type, row, kind)

\* The fields of a handle: entityMask::Id, entityMask::Generation and
\* entityMask::Type, shifted down.
IndexOf(h) == h % 2^GenerationShift
GenerationOf(h) == (h \div 2^GenerationShift) % 2^(TypeShift - GenerationShift)
TagOf(h) == h \div 2^TypeShift

\* The handles createEntity has returned, in the order it returned them.
CreatedEntities(em) ==
    [n \in 1..(em.mNextEntityId - 1) |-> EntityId(n, FirstGeneration)]

\* A handle createEntity returned that destroy has taken out since.
Stale(em, h) ==
    /\ \E n \in 1..(em.mNextEntityId - 1) : h = EntityId(n, FirstGeneration)
    /\ ~isValid(em, h)

----------------------------------------------------------------------------
(* Properties *)

\* C1: in every archetype all columns have the same length, and that length
\* is the number of directory entries whose component set is the
\* archetype's set, after every sequence of add and remove calls.
C1_ColumnParity ==
    \A t \in Types : mArchetypes[t].present =>
        AllColumnsLen(mArchetypes, t, Cardinality(EntriesOf(mEntityInformation, t)))

\* C2: for every entity with a directory entry (set, row), the archetype
\* keyed by set exists and row is below its row count: every column of the
\* archetype has an element at row.
C2_RowInRange ==
    \A e \in Entities : mEntityInformation[e].present =>
        /\ mArchetypes[mEntityInformation[e].type].present
        /\ InRange(mArchetypes, mEntityInformation[e].type,
                   mEntityInformation[e].type, mEntityInformation[e].componentIndex)

\* C3: every occupied row of every archetype is pointed to by exactly one
\* directory entry.
C3_RowsBijective ==
    \A t \in Types : mArchetypes[t].present =>
        \A c \in t : \A i \in 0..(Len(Column(mArchetypes, t, c)) - 1) :
            Cardinality({e \in EntriesOf(mEntityInformation, t) :
                            mEntityInformation[e].componentIndex = i}) = 1

\* C4: add(E, K, V) with K not in the set A of E makes the archetype of
\* B = A \cup {K} exist, keeps the rows B had, sets E's entry to (B, old row
\* count of B), and at that row holds E's previous values and V for K.
C4_AddFreshKind ==
    [][(/\ last'.op = "add"
        /\ last'.res = "ok"
        /\ last'.k \notin mEntityInformation[last'.e].type) =>
        LET e == last'.e
            k == last'.k
            A == mEntityInformation[e].type
            r == mEntityInformation[e].componentIndex
            B == A \cup {k}
            row == mEntityInformation'[e].componentIndex
        IN  /\ mArchetypes'[B].present
            /\ mEntityInformation'[e].present
            /\ mEntityInformation'[e].type = B
            /\ \A c \in B :
                 /\ row = Len(Column(mArchetypes, B, c))
                 /\ row < Len(Column(mArchetypes', B, c))
                 /\ SubSeq(Column(mArchetypes', B, c), 1, row) = Column(mArchetypes, B, c)
            /\ \A c \in A :
                 /\ r < Len(Column(mArchetypes, A, c))
                 /\ Column(mArchetypes', B, c)[row + 1] = Column(mArchetypes, A, c)[r + 1]
            /\ Column(mArchetypes', B, k)[row + 1] = last'.v
      ]_vars

\* C5: when add or remove takes E out of row r of archetype A and r is not
\* the last row of A, the entity at the last row of A gets the entry (A, r)
\* and no other entity's entry changes.
C5_SwapFixUp ==
    [][\A n \in 2..MaxLen :
        LET e == last'.e
            A == mEntityInformation[e].type
            r == mEntityInformation[e].componentIndex
        IN  (/\ last'.op \in {"add", "remove"}
             /\ last'.res = "ok"
             /\ mEntityInformation[e].present
             /\ (last'.op = "add") = (last'.k \notin A)
             /\ A # {}
             /\ AllColumnsLen(mArchetypes, A, n)
             /\ r < n - 1)
            => \A o \in Entities \ {e} :
                  mEntityInformation'[o] =
                      IF mEntityInformation[o] = EntityInformation(A, n - 1)
                      THEN EntityInformation(A, r)
                      ELSE mEntityInformation[o]
      ]_vars

\* C6: after remove(E, K) for E in archetype A that has K, E's entry is
\* (A \ {K}, i) with i the last row of the target archetype, and the values
\* of E's remaining kinds are at row i.
C6_RemoveEntry ==
    [][(/\ last'.op = "remove"
        /\ last'.res = "ok"
        /\ mEntityInformation[last'.e].present
        /\ last'.k \in mEntityInformation[last'.e].type) =>
        LET e == last'.e
            A == mEntityInformation[e].type
            r == mEntityInformation[e].componentIndex
            B == A \ {last'.k}
            i == mEntityInformation'[e].componentIndex
        IN  /\ mEntityInformation'[e].present
            /\ mEntityInformation'[e].type = B
            /\ \A c \in B :
                 /\ i = Len(Column(mArchetypes', B, c)) - 1
                 /\ Column(mArchetypes', B, c)[i + 1] = Column(mArchetypes, A, c)[r + 1]
      ]_vars

\* C7: remove(E, K) for E in archetype A that has K takes one row from A,
\* gives one row to the archetype of A \ {K}, which exists afterwards, and
\* leaves every other archetype as it was.
C7_RemoveRowCounts ==
    [][(/\ last'.op = "remove"
        /\ mEntityInformation[last'.e].present
        /\ last'.k \in mEntityInformation[last'.e].type) =>
        LET A == mEntityInformation[last'.e].type
            B == A \ {last'.k}
        IN  /\ last'.res = "ok"
            /\ mArchetypes'[B].present
            /\ RowCounts(mArchetypes', A) = {n - 1 : n \in RowCounts(mArchetypes, A)}
            /\ RowCounts(mArchetypes', B) = {n + 1 : n \in RowCounts(mArchetypes, B)}
            /\ \A t \in Types \ {A, B} : mArchetypes'[t] = mArchetypes[t]
      ]_vars

\* C8: add(e, K, v2) for an entity that has K overwrites in place: the entry
\* of e and the length of every column are unchanged and K of e reads v2.
C8_ReAddOverwrites ==
    [][(/\ last'.op = "add"
        /\ last'.res = "ok"
        /\ mEntityInformation[last'.e].present
        /\ last'.k \in mEntityInformation[last'.e].type
        /\ OwnRow(mArchetypes, mEntityInformation, last'.e)) =>
        LET e == last'.e
            A == mEntityInformation[e].type
            r == mEntityInformation[e].componentIndex
        IN  /\ mEntityInformation'[e] = mEntityInformation[e]
            /\ \A t \in Types : \A c \in Kinds :
                 Len(Column(mArchetypes', t, c)) = Len(Column(mArchetypes, t, c))
            /\ Column(mArchetypes', A, last'.k)[r + 1] = last'.v
      ]_vars

\* C9: add(e, K, v); remove(e, K) for an entity without K leaves e with the
\* component set it had, every archetype that existed with the row count it
\* had, and every entity's entry on a row that holds its own values.
C9_AddRemoveRoundTrip ==
    [][(/\ last'.op = "addremove"
        /\ AllOwnRows(mArchetypes, mEntityInformation)) =>
        /\ last'.res = "ok"
        /\ mEntityInformation'[last'.e].type = mEntityInformation[last'.e].type
        /\ \A t \in Types : mArchetypes[t].present =>
             \A c \in t : Len(Column(mArchetypes', t, c)) = Len(Column(mArchetypes, t, c))
        /\ AllOwnRows(mArchetypes', mEntityInformation')
      ]_vars

\* C10: one run of a system with required list R invokes the callback once
\* for every row of every archetype whose set includes R and for no other
\* row; a row is an index at which a column handed to the callback has a value.
C10_VisitsExactlyMatching ==
    (last.op = "process" /\ last.res = "ok") =>
        \A t \in Types : \A i \in 0..(MaxLen - 1) :
            VisitCount(last.visits, t, i) =
                IF /\ mArchetypes[t].present
                   /\ last.req \in Seq(t)
                   /\ \E j \in 1..Len(last.req) :
                         i < Len(Column(mArchetypes, t, last.req[j]))
                THEN 1 ELSE 0

\* C11: update() runs the prelude and the callbacks of every PreUpdate
\* system and then of every Update system and of no other system; render()
\* does so for PreRender and then Render; imGui() for the ImGui systems only.
C11_PhasesOfEntryPoints ==
    /\ last.op = "update" =>
          /\ last.res = "ok"
          /\ PreludesOf(last.events) =
                 IdsOf(mSystems[PreUpdate]) \o IdsOf(mSystems[Update])
          /\ OrdersOf(last.events) \subseteq {PreUpdate, Update}
          /\ \A i, j \in 1..Len(last.events) :
                (last.events[i].order = PreUpdate /\ last.events[j].order = Update)
                    => i < j
    /\ last.op = "render" =>
          /\ last.res = "ok"
          /\ PreludesOf(last.events) =
                 IdsOf(mSystems[PreRender]) \o IdsOf(mSystems[Render])
          /\ OrdersOf(last.events) \subseteq {PreRender, Render}
          /\ \A i, j \in 1..Len(last.events) :
                (last.events[i].order = PreRender /\ last.events[j].order = Render)
                    => i < j
    /\ last.op = "imGui" =>
          /\ last.res = "ok"
          /\ PreludesOf(last.events) = IdsOf(mSystems[ImGui])
          /\ OrdersOf(last.events) \subseteq {ImGui}

\* An update() has run a PreUpdate system and an Update system, each on at
\* least one row.
C11_Witness ==
    /\ last.op = "update"
    /\ \E i, j \in 1..Len(last.events) :
          /\ last.events[i].what = "invoke" /\ last.events[i].order = PreUpdate
          /\ last.events[j].what = "invoke" /\ last.events[j].order = Update

\* C12: the systems of a phase run in the order they were registered in, on
\* every tick: a registration appends to the vector of its phase and leaves
\* the vectors' earlier elements in place, and in the log of a tick every
\* event (prelude or callback) of a system precedes every event of a system
\* registered later in the same phase.
C12_RegistrationOrder ==
    [][/\ \A o \in ExecutionOrders :
            /\ Len(mSystems[o]) <= Len(mSystems'[o])
            /\ SubSeq(mSystems'[o], 1, Len(mSystems[o])) = mSystems[o]
            /\ \A i, j \in 1..Len(mSystems'[o]) :
                  i < j => mSystems'[o][i].system.id < mSystems'[o][j].system.id
       /\ last'.op \in {"update", "render", "imGui"} =>
             \A a, b \in 1..Len(last'.events) :
                (/\ last'.events[a].order = last'.events[b].order
                 /\ last'.events[a].sys < last'.events[b].sys) => a < b
      ]_vars

\* A tick has run two systems of one phase, each on at least one row.
C12_Witness ==
    /\ last.op \in {"update", "render", "imGui"}
    /\ \E a, b \in 1..Len(last.events) :
          /\ last.events[a].what = "invoke" /\ last.events[b].what = "invoke"
          /\ last.events[a].order = last.events[b].order
          /\ last.events[a].sys # last.events[b].sys

\* C13: the value a callback is handed for a kind of a row is the value the
\* latest earlier callback of the tick left there (same phase or an earlier
\* phase), or the value the row had when the tick began if none touched it;
\* and the value the last callback left is the value the row holds after
\* the tick, for the systems of the following entry point to read.
C13_WritesVisible ==
    [][last'.op \in {"update", "render", "imGui"} =>
        \A b \in 1..Len(last'.events) : \A n \in 1..Len(last'.events[b].req) :
            LET evb == last'.events[b]
                type == evb.type
                row == evb.row
                kind == evb.req[n]
                before == {a \in 1..(b - 1) :
                              TouchesCell(last'.events[a], type, row, kind)}
                after == {c \in (b + 1)..Len(last'.events) :
                              TouchesCell(last'.events[c], type, row, kind)}
            IN  evb.what = "invoke" =>
                  /\ before = {} =>
                        evb.read[n] = Column(mArchetypes, type, kind)[row + 1]
                  /\ \A a \in before : \A m \in 1..Len(last'.events[a].req) :
                        (/\ Touches(last'.events[a], m, type, row, kind)
                         /\ \A c \in before : c <= a)
                            => evb.read[n] = last'.events[a].wrote[m]
                  /\ after = {} =>
                        Column(mArchetypes', type, kind)[row + 1] = evb.wrote[n]
      ]_vars

\* In a tick a callback changed a value and a callback of a later system
\* was handed that row's value of the same kind.
C13_Witness ==
    /\ last.op \in {"update", "render", "imGui"}
    /\ \E a, b \in 1..Len(last.events) :
          /\ a < b
          /\ last.events[a].what = "invoke" /\ last.events[b].what = "invoke"
          /\ last.events[a].sys # last.events[b].sys
          /\ last.events[a].wrote # last.events[a].read
          /\ \E n \in 1..Len(last.events[b].req) :
                /\ Touches(last.events[a], 1, last.events[b].type,
                           last.events[b].row, last.events[b].req[n])
                /\ last.events[b].read[n] = last.events[a].wrote[1]

\* C14: createSystem fails when the number of handles differs from the number
\* of declared value-types or when some handle does not validate against the
\* type of its position, and a failed registration adds no system.
C14_RegistrationFails ==
    [][last'.op = "createSystem" =>
        /\ (\/ Len(last'.req) # Len(last'.hashes)
            \/ \E i \in 1..Len(last'.req) :
                  i <= Len(last'.hashes)
                      /\ ~isValidType(EM, last'.req[i], last'.hashes[i]))
              => last'.res = "throw"
        /\ last'.res # "ok" => mSystems' = mSystems
      ]_vars

\* C15: a handle that has been destroyed is not valid in any later state,
\* whatever is created afterwards, and of two handles createEntity returned
\* with the same index the later one has the greater generation.
C15_StaleNeverValid ==
    [][/\ \A h \in Handles : Stale(EM, h) => ~isValid(EM', h)
       /\ \A n, m \in 1..Len(CreatedEntities(EM')) :
             (n < m /\ IndexOf(CreatedEntities(EM')[n]) = IndexOf(CreatedEntities(EM')[m]))
                 => GenerationOf(CreatedEntities(EM')[n])
                        < GenerationOf(CreatedEntities(EM')[m])
      ]_vars

\* The component kinds that are registered now: returned by
\* create<T> and not destroyed since.
RegisteredKinds(em) ==
    {h \in Handles : /\ \E n \in 1..(em.mNextComponentId - 1) : h = ComponentId(n)
                      /\ isValid(em, h)}

\* C19: isValid(h, token) answers true exactly when h is a registered
\* component kind whose recorded token is the given one; for a handle that
\* carries the Entity tag it answers false.
C19_ValidateKind ==
    last.op = "isValid" =>
        /\ last.ret <=> (/\ last.id \in RegisteredKinds(EM)
                         /\ TagOf(last.id) = TagOf(ComponentFlag)
                         /\ mEntityToHash[last.id] = last.hash)
        /\ TagOf(last.id) = TagOf(EntityFlag) => ~last.ret

\* C20: a value-type has at most one default kind, and after a kind is
\* made the default of its value-type (create<T>(TypeDefault) or
\* makeFoundationComponent) getComponentIdOf<T>() returns that kind.
C20_LatestDefault ==
    [][/\ (last'.op = "create" /\ last'.flag = "TypeDefault")
            => getComponentIdOf(EM', last'.hash) = [id |-> last'.id, res |-> "ok"]
       /\ (last'.op = "makeFoundationComponent" /\ last'.res = "ok")
            => getComponentIdOf(EM', mEntityToHash'[last'.id])
                   = [id |-> last'.id, res |-> "ok"]
      ]_vars

\* C16: add and remove on an entity handle that is not live fail and
\* leave the directory and every archetype as they were: add on such a
\* handle creates no directory entry and no row.
C16_UnknownEntity ==
    [][(last'.op \in {"add", "remove"} /\ ~isValid(EM, last'.e))
          => /\ last'.res = "throw"
             /\ mArchetypes' = mArchetypes
             /\ mEntityInformation' = mEntityInformation
      ]_vars

\* C17: add with a kind that is not a registered component handle fails and
\* leaves the world as it was.
C17_AddChecksKind ==
    [][(last'.op = "add" /\ last'.k \notin RegisteredKinds(EM))
          => /\ last'.res = "throw"
             /\ mArchetypes' = mArchetypes
             /\ mEntityInformation' = mEntityInformation
      ]_vars

\* C18: when the delegate of a system adds or removes a component of an
\* entity of the running query, the run ends in a failure at that row: no
\* further row is handed to the delegate.
C18_MutationDetected ==
    [][(last'.op = "processRemoving" /\ last'.visits # <<>>)
          => /\ last'.res = "throw"
             /\ Len(last'.visits) = 1
      ]_vars

\* The step marks a kind as the default of the type hash.
MarksDefault(hash) ==
    \/ last'.op = "create" /\ last'.flag = "TypeDefault" /\ last'.hash = hash
    \/ /\ last'.op = "makeFoundationComponent" /\ last'.res = "ok"
       /\ mEntityToHash[last'.id] = hash

\* C21: getComponentIdOf<T>() fails when no kind has been marked as the
\* default of T, also when T has registered kinds, and returns the default
\* otherwise; in both cases the registry is as it was.  A type has a
\* default only from a step that marks one.
C21_DefaultLookup ==
    [][/\ last'.op = "getComponentIdOf"
            => /\ <<mEntityToHash, mHashToComponentId, mNextEntityId, mNextComponentId>>'
                    = <<mEntityToHash, mHashToComponentId, mNextEntityId, mNextComponentId>>
               /\ IF mHashToComponentId[last'.hash] = NoComponent
                  THEN last'.res = "throw"
                  ELSE last'.res = "ok" /\ last'.id = mHashToComponentId[last'.hash]
       /\ \A hash \in AllHashes :
             (mHashToComponentId[hash] = NoComponent
                 /\ mHashToComponentId'[hash] # NoComponent) => MarksDefault(hash)
      ]_vars

\* A failed lookup for a type that has a registered kind.
C21_Witness ==
    /\ last.op = "getComponentIdOf"
    /\ last.res = "throw"
    /\ \E h \in RegisteredKinds(EM) : mEntityToHash[h] = last.hash

\* C22: a handle returned by createEntity carries the Entity tag and
\* generation 1, its index is one more than that of the entity created
\* before it, and it differs from every handle returned earlier, entity or
\* component.
C22_EntityHandleLayout ==
    [][last'.op = "createEntity"
          => /\ TagOf(last'.id) = TagOf(EntityFlag)
             /\ GenerationOf(last'.id) = 1
             /\ mNextEntityId > 1
                  => IndexOf(last'.id)
                       = IndexOf(EntityId(mNextEntityId - 1, FirstGeneration)) + 1
             /\ last'.id \notin Returned(EM)
      ]_vars

\* C23: createEntity fails once every index of the index field has been
\* given out; the counter stays within the index field and no handle is
\* returned twice.
C23_IndexExhaustion ==
    [][last'.op = "createEntity"
          => /\ mNextEntityId >= 2^GenerationShift
                  => /\ last'.res = "throw"
                     /\ mEntityToHash' = mEntityToHash
                     /\ mNextEntityId' = mNextEntityId
             /\ mNextEntityId' <= 2^GenerationShift
             /\ last'.res = "ok"
                  => last'.id \notin {EntityId(n, FirstGeneration) :
                                         n \in 1..(mNextEntityId - 1)}
      ]_vars

\* The handles createComponent has returned.
CreatedKinds(em) == {ComponentId(n) : n \in 1..(em.mNextComponentId - 1)}

\* C24: a handle returned by create<T> carries the Component tag, its index
\* part differs from that of every kind registered before it, and its
\* generation field is the same as theirs: the index does not reach it.
C24_ComponentHandleLayout ==
    [][last'.op = "create"
          => /\ TagOf(last'.id) = TagOf(ComponentFlag)
             /\ \A h \in CreatedKinds(EM) :
                   /\ IndexOf(h) # IndexOf(last'.id)
                   /\ GenerationOf(h) = GenerationOf(last'.id)
      ]_vars

\* The bit positions (0 the least significant) set in a 64-bit value.
BitsOf(x) ==
    {8 * (8 - i) + b : i \in 1..8, b \in 0..7} \cap
    UNION {{IF (x[i] \div 2^b) % 2 = 1 THEN 8 * (8 - i) + b ELSE 64 : b \in 0..7}
              : i \in 1..8}

\* x << shift, for a shift of whole bytes.
ShiftLeft(x, shift) == SubSeq(x, 1 + shift \div 8, 8) \o Zeros(shift \div 8)

\* C25: the masks Id, Generation and Type select bits 0-31, 32-55 and 56-63:
\* they are pairwise disjoint, cover the 64 bits and start at their shift
\* constants, so the fields print takes from a handle make up the handle.
C25_MasksPartition ==
    /\ BitsOf(entityMask.Id) = 0..31
    /\ BitsOf(entityMask.Generation) = 32..55
    /\ BitsOf(entityMask.Type) = 56..63
    /\ \A f \in {"Id", "Generation", "Type"} :
          \A b \in BitsOf(entityMask[f]) : b >= entityFlagShifts[f]
    /\ last.op = "print"
          => BitsOf(last.req)
               = BitsOf(last.printed.type)
                   \cup BitsOf(ShiftLeft(last.printed.generation,
                                         entityFlagShifts.Generation))
                   \cup BitsOf(last.printed.id)

\* C26: an archetype that exists exists in every later state, also when
\* its rows have all been moved out, and it can take rows again.
C26_ArchetypesRetained ==
    [][\A t \in Types : findArchetype(mArchetypes, t) => findArchetype(mArchetypes', t)
      ]_vars

\* The archetype of one kind holds a row again after the entity that had
\* been in it was moved out: add(e1, k), remove(e1, k), add(e2, k).
C26_Witness ==
    /\ last.op = "add" /\ last.res = "ok"
    /\ \A t \in Types : findArchetype(mArchetypes, t) <=> t \in {{}, {last.k}}
    /\ RowCounts(mArchetypes, {last.k}) = {1}
    /\ mEntityInformation[last.e].type = {last.k}
    /\ \E e \in Entities \ {last.e} :
          /\ mEntityInformation[e].present
          /\ mEntityInformation[e].type = {}

\* The explicit handles followed by the default kinds of the value-types
\* they leave open.
Filled(em, req, hashes) ==
    [i \in 1..Len(hashes) |->
        IF i <= Len(req) THEN req[i] ELSE getComponentIdOf(em, hashes[i]).id]

\* C27: with AutoInitialise a system of N value-types registered with
\* k <= N handles gets these handles followed by the default kinds of the
\* value-types k..N-1; the filled list is verified against the types, and
\* the system is added with it when it verifies and not added otherwise.
C27_AutoFill ==
    [][(/\ last'.op = "createSystem"
        /\ mInitSettings = "AutoInitialise"
        /\ Len(last'.req) <= Len(last'.hashes)
        /\ \A i \in (Len(last'.req) + 1)..Len(last'.hashes) :
              getComponentIdOf(EM, last'.hashes[i]).res = "ok")
          => LET filled == Filled(EM, last'.req, last'.hashes)
             IN  IF \A i \in 1..Len(filled) : isValidType(EM, filled[i], last'.hashes[i])
                 THEN /\ last'.res = "ok"
                      /\ last'.order \in ExecutionOrders
                           => mSystems'[last'.order]
                                = Append(mSystems[last'.order],
                                         SystemUTypePair(System(last'.id, last'.hashes,
                                                                last'.dlg, last'.order),
                                                         filled))
                 ELSE /\ last'.res = "throw"
                      /\ mSystems' = mSystems
      ]_vars

\* C28: an entity that has been destroyed has no directory entry and no
\* value of it is left in a row, so no delegate is called with one.
C28_DestroyedLeavesNoRows ==
    \A e \in Entities :
        ~isValid(EM, e)
            => /\ ~mEntityInformation[e].present
               /\ \A t \in Types, c \in Kinds :
                     \A i \in 1..Len(mArchetypes[t].mComponents[c]) :
                        mArchetypes[t].mComponents[c][i][1] # e
               /\ \A n \in 1..Len(last.events) :
                     last.events[n].what = "invoke"
                         => \A a \in 1..Len(last.events[n].read) :
                               last.events[n].read[a][1] # e

\* The systems a tick runs, in the order it runs them.
SystemsOf(op, systems) ==
    IF op = "update" THEN systems[PreUpdate] \o systems[Update]
    ELSE IF op = "render" THEN systems[PreRender] \o systems[Render]
    ELSE systems[ImGui]

\* The position of the prelude that event n belongs to: the last onUpdate
\* at or before n (0 when there is none).
PreludeBefore(events, n) ==
    LET ps == {i \in 1..n : IsOnUpdate(events[i])}
    IN  IF ps = {} THEN 0 ELSE CHOOSE i \in ps : \A j \in ps : j <= i

C29_NoArchetypeMatches ==
    /\ last.op = "update"
    /\ Len(mSystems[Update]) = 2
    /\ getArchetypesWithSubset(mArchetypes, mSystems[Update][1].uType) = <<>>
    /\ getArchetypesWithSubset(mArchetypes, mSystems[Update][2].uType) = <<>>
    /\ Len(last.events) = 2

\* The values handed to the delegate at row (counted from 0) of archetype
\* type, for the required list req: argument n is element row of the array
\* of req[n].
ArgumentsAt(arch, type, row, req) ==
    [n \in 1..Len(req) |-> arch[type].mComponents[req[n]][row + 1]]

\* C30: in every call of the delegate argument i is the value of kind Ki at
\* the visited row, whatever the order of the kinds in the archetype (what
\* the delegate writes to its first argument arrives in the array of K1 and
\* in no other), and the arguments of one call are values of one entity.
C30_ArgumentsOfOneRow ==
    [][(last'.op = "process" /\ last'.res = "ok")
          => \A j \in 1..Len(last'.visits) :
                LET type == last'.visits[j][1]
                    row == last'.visits[j][2]
                    args == ArgumentsAt(mArchetypes, type, row, last'.req)
                IN  /\ \A n \in 1..Len(args) : args[n][1] = args[1][1]
                    /\ mArchetypes'[type].mComponents[last'.req[1]][row + 1]
                          = invoke(last'.dlg, args[1])
                    /\ \A c \in Kinds \ {last'.req[1]} :
                          mArchetypes'[type].mComponents[c]
                              = mArchetypes[type].mComponents[c]
      ]_vars

\* The visits are in the order of the keys of mArchetypes and, within an
\* archetype, of the rows.
VisitsAscending(visits) ==
    \A i, j \in 1..Len(visits) :
        i < j => \/ TypeLess(visits[i][1], visits[j][1])
                 \/ visits[i][1] = visits[j][1] /\ visits[i][2] < visits[j][2]

C32_AutoFillArity ==
    [][(/\ last'.op = "createSystem"
        /\ mInitSettings = "AutoInitialise"
        /\ Len(last'.req) > Len(last'.hashes))
          => /\ last'.res = "throw"
             /\ ~ub'
             /\ mSystems' = mSystems
      ]_vars

\* The value of kind c of entity e, read at the row its directory entry
\* names; <<0, 0>>, which no entity owns, when there is no such row.
ReadThroughDirectory(arch, info, e, c) ==
    LET column == arch[info[e].type].mComponents[c]
    IN  IF info[e].present /\ info[e].componentIndex < Len(column)
        THEN column[info[e].componentIndex + 1]
        ELSE <<0, 0>>

\* C33: add(E, K, v) and remove(E, K) leave every other entity with its
\* component set and, read through the directory, with every value it had.
C33_OthersUnchanged ==
    [][(last'.op \in {"add", "remove"} /\ last'.res = "ok")
          => \A e \in Entities \ {last'.e} :
                /\ mEntityInformation'[e].present = mEntityInformation[e].present
                /\ mEntityInformation'[e].type = mEntityInformation[e].type
                /\ \A c \in mEntityInformation[e].type :
                      ReadThroughDirectory(mArchetypes, mEntityInformation, e, c)
                              # <<0, 0>>
                          => ReadThroughDirectory(mArchetypes', mEntityInformation', e, c)
                               = ReadThroughDirectory(mArchetypes, mEntityInformation, e, c)
      ]_vars

\* The kinds in the required lists of the systems a tick runs.
KindsOf(list) == UNION {{list[i].uType[n] : n \in 1..Len(list[i].uType)} : i \in 1..Len(list)}

\* The delegates of the systems a tick runs.
DelegatesOf(list) == {list[i].system.dlg : i \in 1..Len(list)}

\* C34: update(), render() and imGui() with delegates that only write to
\* the values handed to them leave the directory, the set of archetypes and
\* the length of every array as they were, and every array of a kind that
\* is in no required list of the systems run; when every system run has the
\* delegate it was constructed with, no value changes.
C34_TicksChangeNoStructure ==
    [][last'.op \in {"update", "render", "imGui"}
          => LET list == SystemsOf(last'.op, mSystems)
             IN  /\ mEntityInformation' = mEntityInformation
                 /\ \A t \in Types :
                       /\ findArchetype(mArchetypes', t) = findArchetype(mArchetypes, t)
                       /\ \A c \in Kinds :
                             /\ Len(mArchetypes'[t].mComponents[c])
                                   = Len(mArchetypes[t].mComponents[c])
                             /\ c \notin KindsOf(list)
                                   => mArchetypes'[t].mComponents[c]
                                        = mArchetypes[t].mComponents[c]
                 /\ DelegatesOf(list) \subseteq {"empty"} => mArchetypes' = mArchetypes
      ]_vars

\* An update() in which a system over one kind wrote to the values of an
\* archetype that has a second kind.
C34_Witness ==
    /\ last.op = "update"
    /\ \E n \in 1..Len(last.events) :
          /\ last.events[n].what = "invoke"
          /\ Len(last.events[n].req) = 1
          /\ Cardinality(last.events[n].type) = 2
          /\ last.events[n].wrote # last.events[n].read
    /\ Kinds \ KindsOf(mSystems[Update]) # {}

----------------------------------------------------------------------------
(* A remove that cannot succeed *)

\* C35: remove(E, K) raises an error and leaves the directory, the set of
\* archetypes and every column as they were, when E has no directory entry
\* or when the component set of E does not contain K.
C35_FailedRemoveChangesNothing ==
    [][(/\ last'.op = "remove"
        /\ \/ ~mEntityInformation[last'.e].present
           \/ last'.k \notin mEntityInformation[last'.e].type)
       => /\ last'.res = "throw"
          /\ ~ub'
          /\ mEntityInformation' = mEntityInformation
          /\ mArchetypes' = mArchetypes]_vars

----------------------------------------------------------------------------
(* The phase list of a system *)

\* What the constructor of a system does about its order: it calls
\* scheduleFor(order) or it does not, none of the five phases included.
Schedulings ==
    {<<FALSE, Update>>} \cup {<<TRUE, o>> : o \in ExecutionOrders \cup {ImGui + 1}}

\* BaseSystem: mExecutionOrder { Update } unless scheduleFor was called.
getExecutionOrder(scheduled) ==
    IF scheduled[1] THEN scheduled[2] ELSE Update

\* scheduleFor that takes the system out of its vector and puts it into the
\* vector of the new order.
RECURSIVE withoutSystem(_, _)
withoutSystem(list, id) ==
    IF list = <<>> THEN <<>>
    ELSE IF Head(list).system.id = id THEN withoutSystem(Tail(list), id)
    ELSE <<Head(list)>> \o withoutSystem(Tail(list), id)

RECURSIVE rescheduled(_, _, _)
rescheduled(list, id, executionOrder) ==
    IF list = <<>> THEN <<>>
    ELSE <<IF Head(list).system.id = id
           THEN [Head(list) EXCEPT !.system.order = executionOrder]
           ELSE Head(list)>> \o rescheduled(Tail(list), id, executionOrder)

scheduleFor_Moves(systems, id, executionOrder) ==
    LET from == CHOOSE o \in ExecutionOrders :
                    \E i \in 1..Len(systems[o]) : systems[o][i].system.id = id
        pair == CHOOSE p \in {systems[from][i] : i \in 1..Len(systems[from])} :
                    p.system.id = id
        s1 == [systems EXCEPT ![from] = withoutSystem(@, id)]
    IN  addSystem(s1, pair.uType, [pair.system EXCEPT !.order = executionOrder])

\* IBaseSystem::scheduleFor called by a system the manager already holds (from
\* its onUpdate): mExecutionOrder = executionOrder, and nothing else.
scheduleFor(systems, id, executionOrder) ==
    [systems EXCEPT ![PreUpdate] = rescheduled(@, id, executionOrder),
                    ![Update] = rescheduled(@, id, executionOrder),
                    ![PreRender] = rescheduled(@, id, executionOrder),
                    ![Render] = rescheduled(@, id, executionOrder),
                    ![ImGui] = rescheduled(@, id, executionOrder)]

\* Core::createSystem<System>(uType) for a system whose constructor did or
\* did not call scheduleFor.
PhaseCreateSystem(uType, dlg, scheduled) ==
    /\ ~ub
    /\ calls < MaxSchedCalls
    /\ NumSystems(mSystems) < MaxSystems
    /\ LET id == NumSystems(mSystems) + 1
           hashes == HashesOf(EM, uType)
           order == getExecutionOrder(scheduled)
           o == createSystem(EM, mInitSettings, mSystems, uType,
                             System(id, hashes, dlg, order))
       IN  /\ mSystems' = o.systems
           /\ ub' = (o.res = "ub")
           /\ last' = [NoCall EXCEPT !.op = "createSystem", !.req = uType,
                                     !.hashes = hashes, !.dlg = dlg, !.order = order,
                                     !.flag = IF scheduled[1]
                                              THEN "scheduled" ELSE "never",
                                     !.id = id, !.res = o.res]
    /\ calls' = calls + 1
    /\ UNCHANGED <<storeVars, registryVars, mInitSettings>>

\* A registered system calls scheduleFor(order).
PhaseScheduleFor(id, order) ==
    /\ ~ub
    /\ calls < MaxSchedCalls
    /\ id <= NumSystems(mSystems)
    /\ mSystems' = scheduleFor(mSystems, id, order)
    /\ last' = [NoCall EXCEPT !.op = "scheduleFor", !.id = id, !.order = order]
    /\ calls' = calls + 1
    /\ UNCHANGED <<storeVars, registryVars, mInitSettings, ub>>

PhaseNext ==
    \/ \E uType \in {u \in UTypes : Len(u) = 1}, scheduled \in Schedulings :
          PhaseCreateSystem(uType, "bump", scheduled)
    \/ \E id \in 1..MaxSystems, order \in ExecutionOrders : PhaseScheduleFor(id, order)
    \/ TickUpdate
    \/ TickRender
    \/ TickImGui

PhaseSpec == SchedInit /\ [][PhaseNext]_vars

\* How many times a tick ran the prelude of system id.
Runs(events, id) ==
    Cardinality({n \in 1..Len(events) : IsOnUpdate(events[n]) /\ events[n].sys = id})

PhasesOf(op) ==
    IF op = "update" THEN {PreUpdate, Update}
    ELSE IF op = "render" THEN {PreRender, Render}
    ELSE {ImGui}

----------------------------------------------------------------------------
(* One archetype per component set *)

MaxArchCalls == 5

\* Core::add(eId, cId, value)
ArchAdd(e, k) ==
    /\ ~ub
    /\ calls < MaxArchCalls
    /\ \E o \in add(mArchetypes, mEntityInformation, e, k, <<e, 0>>) :
          /\ \A n \in Lengths(o.arch) : n <= MaxLen
          /\ Commit(o, [NoCall EXCEPT !.op = "add", !.e = e, !.k = k, !.v = <<e, 0>>], 1)

\* Core::remove(entity, component)
ArchRemove(e, k) ==
    /\ ~ub
    /\ calls < MaxArchCalls
    /\ \E o \in remove(mArchetypes, mEntityInformation, e, k) :
          Commit(o, [NoCall EXCEPT !.op = "remove", !.e = e, !.k = k], 1)

ArchNext ==
    \/ \E e \in Entities, k \in Kinds : ArchAdd(e, k)
    \/ \E e \in Entities, k \in Kinds : ArchRemove(e, k)

ArchSpec == Init /\ [][ArchNext]_vars

IsPrefix(old, new) ==
    Len(old) <= Len(new) /\ SubSeq(new, 1, Len(old)) = old

\* C37: there is one archetype per component set, and creating or cloning
\* one for a set that has an archetype is a no-op: createArchetype,
\* cloneArchetype and subCloneArchetype return the map as it was, and the
\* call that asked for it finds the rows of the archetype where they were.
C37_OneArchetypePerSet ==
    [][/\ \A t \in Types : findArchetype(mArchetypes', t) =>
             /\ \A id \in Kinds : t = {id} => createArchetype(mArchetypes', id) = mArchetypes'
             /\ \A id \in Kinds, base \in Types :
                   base \cup {id} = t => cloneArchetype(mArchetypes', id, base) = mArchetypes'
             /\ \A base \in Types : subCloneArchetype(mArchetypes', t, base) = mArchetypes'
       /\ (last'.op \in {"add", "remove"} /\ last'.res = "ok")
          => LET target == mEntityInformation'[last'.e].type
             IN  findArchetype(mArchetypes, target)
                    => /\ findArchetype(mArchetypes', target)
                       /\ \A c \in Kinds :
                             IsPrefix(mArchetypes[target].mComponents[c],
                                      mArchetypes'[target].mComponents[c])]_vars

\* A first add of a kind to an entity, into an archetype that already holds
\* the row of another entity.
C37_Witness ==
    /\ last.op = "add"
    /\ last.res = "ok"
    /\ mEntityInformation[last.e].type = {last.k}
    /\ mEntityInformation[last.e].componentIndex = 1
    /\ Len(mArchetypes[{last.k}].mComponents[last.k]) = 2
    /\ mArchetypes[{last.k}].mComponents[last.k][1][1] # last.e

----------------------------------------------------------------------------
(* Moving one row of a column to its peer *)

\* The archetype a row leaves and the one it goes to, as in add: the peer
\* has the columns of the source and one more.
SourceType == {ComponentId(1)}
PeerType == {ComponentId(1), ComponentId(2)}

\* The vectors of at most n values, each value owned by an entity.
RECURSIVE ColumnsUpTo(_)
ColumnsUpTo(n) ==
    IF n = 0 THEN {<<>>}
    ELSE LET shorter == ColumnsUpTo(n - 1)
         IN  shorter \cup {Append(data, <<e, 0>>) : data \in shorter, e \in Entities}

ColumnInit ==
    /\ \E data \in ColumnsUpTo(MaxLen) \ {<<>>}, newData \in ColumnsUpTo(MaxLen - 1) :
          mArchetypes =
              [[t \in Types |-> NoArchetype] EXCEPT
                  ![SourceType] = [NewArchetype EXCEPT
                                      !.mComponents[ComponentId(1)] = data],
                  ![PeerType] = [NewArchetype EXCEPT
                                      !.mComponents[ComponentId(1)] = newData,
                                      !.mComponents[ComponentId(2)] = newData]]
    /\ mEntityInformation = [e \in Entities |-> NoEntityInformation]
    /\ ub = FALSE
    /\ last = NoCall
    /\ calls = 0
    /\ mEntityToHash = NewEntityManager.mEntityToHash
    /\ mHashToComponentId = NewEntityManager.mHashToComponentId
    /\ mNextEntityId = NewEntityManager.mNextEntityId
    /\ mNextComponentId = NewEntityManager.mNextComponentId
    /\ mInitSettings = "None"
    /\ mSystems = [o \in ExecutionOrders |-> <<>>]

\* oldArchetype.transferTo(newArchetype, dataIndex) with dataIndex in range
ColumnTransferTo(dataIndex) ==
    /\ dataIndex < Len(mArchetypes[SourceType].mComponents[ComponentId(1)])
    /\ \E o \in transferTo(mArchetypes, SourceType, PeerType, dataIndex) :
          /\ mArchetypes' = o.arch
          /\ last' = [op |-> "transferTo", itemIndex |-> dataIndex,
                      movedIndex |-> o.movedIndex]
    /\ UNCHANGED <<mEntityInformation, ub, calls, registryVars, mInitSettings, mSystems>>

ColumnNext == \E dataIndex \in 0..(MaxLen - 1) : ColumnTransferTo(dataIndex)

ColumnSpec == ColumnInit /\ [][ColumnNext]_vars

\* C38: moving row i of a column of length n to its peer appends the old
\* value at i to the peer, leaves the source with length n - 1, the old last
\* value at position i (when i < n - 1) and every other position as it was,
\* and returns the old last index n - 1, the index of the element moved into
\* position i, which is no row of the source when i was the last row.
C38_MoveRow ==
    [][last'.op = "transferTo"
       => LET i == last'.itemIndex
              data == mArchetypes[SourceType].mComponents[ComponentId(1)]
              after == mArchetypes'[SourceType].mComponents[ComponentId(1)]
              newData == mArchetypes[PeerType].mComponents[ComponentId(1)]
              n == Len(data)
          IN  /\ mArchetypes'[PeerType].mComponents[ComponentId(1)]
                    = Append(newData, data[i + 1])
              /\ Len(after) = n - 1
              /\ i < n - 1 => after[i + 1] = data[n]
              /\ \A j \in 1..(n - 1) : j # i + 1 => after[j] = data[j]
              /\ last'.movedIndex = n - 1
              /\ i = n - 1 => last'.movedIndex \notin 0..(Len(after) - 1)]_vars

\* A row that was not the last one has been moved out of a column of three.
C38_Witness ==
    /\ last.op = "transferTo"
    /\ last.itemIndex = 0
    /\ last.movedIndex = 2
    /\ Len(mArchetypes[PeerType].mComponents[ComponentId(1)]) = 2

\* The last row of a column has been moved.
C38_LastRow ==
    /\ last.op = "transferTo"
    /\ last.itemIndex = last.movedIndex
    /\ last.itemIndex > 0

----------------------------------------------------------------------------
(* includes *)

\* The required lists of at most n ids, in any order and with repeats.
RECURSIVE ListsUpTo(_)
ListsUpTo(n) ==
    IF n = 0 THEN {<<>>}
    ELSE LET shorter == ListsUpTo(n - 1)
         IN  shorter \cup {Append(list, k) : list \in shorter, k \in Kinds}

\* Any set of archetypes, empty as add leaves them before the first row, and
\* any required list.
IncludesInit ==
    /\ \E keys \in SUBSET Types :
          mArchetypes = [t \in Types |-> IF t \in keys THEN NewArchetype
                                         ELSE NoArchetype]
    /\ \E uType \in ListsUpTo(MaxLen) :
          last = [NoCall EXCEPT !.op = "input", !.req = uType]
    /\ mEntityInformation = [e \in Entities |-> NoEntityInformation]
    /\ ub = FALSE
    /\ calls = 0
    /\ mEntityToHash = NewEntityManager.mEntityToHash
    /\ mHashToComponentId = NewEntityManager.mHashToComponentId
    /\ mNextEntityId = NewEntityManager.mNextEntityId
    /\ mNextComponentId = NewEntityManager.mNextComponentId
    /\ mInitSettings = "None"
    /\ mSystems = [o \in ExecutionOrders |-> <<>>]

\* ArchetypeManager::getArchetypesWithSubset(uType)
GetArchetypesWithSubset ==
    /\ last.op = "input"
    /\ last' = [last EXCEPT !.op = "getArchetypesWithSubset",
                            !.visits = getArchetypesWithSubset(mArchetypes, last.req)]
    /\ UNCHANGED <<storeVars, ub, calls, registryVars, mInitSettings, mSystems>>

IncludesNext == GetArchetypesWithSubset

IncludesSpec == IncludesInit /\ [][IncludesNext]_vars

Members(list) == {list[i] : i \in 1..Len(list)}

\* C39: includes(set, subset) is true exactly when every element of the list
\* subset is a member of set: it is true for the empty list, and lists with
\* the same elements, repeated or in another order, give the same answer.
C39_Includes ==
    last.op = "getArchetypesWithSubset"
        => \A set \in Types :
              /\ includes(set, last.req) <=> Members(last.req) \subseteq set
              /\ includes(set, <<>>)
              /\ \A subset \in ListsUpTo(MaxLen) :
                    Members(subset) = Members(last.req)
                        => (includes(set, subset) <=> includes(set, last.req))
              /\ (set \in Members(last.visits))
                    <=> (findArchetype(mArchetypes, set) /\ Members(last.req) \subseteq set)

\* A list with a repeated id selected one archetype and left out another.
C39_Witness ==
    /\ last.op = "getArchetypesWithSubset"
    /\ Len(last.req) > Cardinality(Members(last.req))
    /\ last.visits # <<>>
    /\ \E set \in Types : findArchetype(mArchetypes, set) /\ set \notin Members(last.visits)

============================================================================
